---- MODULE Spec2Model ----
(***************************************************************************)
(* The observability correlation layer of app-obs/example-services: one    *)
(* Observability handle (a mutable ambient context), the spans started and *)
(* ended through it, the Log wrappers derived from it, and the APMHandler  *)
(* that mirrors log records onto the span of the ambient context.          *)
(* Three APMHandler implementations live in the repository; `impl` says    *)
(* which one the running service was built with.                           *)
(***************************************************************************)
EXTENDS Integers, Sequences, FiniteSets, TLC

\* ------------------------------------------------------------------ bounds
MaxSpans == 3
MaxLoggers == 2
MaxLogs == 2
MirrorSpans == 2
MirrorLogs == 1
WithLoggers == 4
NumRequests == 2
NumBranches == 2

\* ------------------------------------------------------------------ values
\* The APMHandler implementations of the repository.
Impls == {"frontend-service", "product", "product-service"}

\* slog levels, with the integer severities the handlers compare.
Levels == {"DEBUG", "INFO", "WARN", "ERROR"}
Severity == [l \in Levels |-> CASE l = "DEBUG" -> 0 - 4
                                [] l = "INFO" -> 0
                                [] l = "WARN" -> 4
                                [] l = "ERROR" -> 8]

\* HandlerOptions.Level of the wrapped JSON handler.
SinkLevel == "DEBUG"

\* A log field: kind "err" is a Go error value, kind "str" any other value;
\* text is what Value.String() / Error() prints.
ErrAttr == [key |-> "error", kind |-> "err", text |-> "product not found"]
StrErrAttr == [key |-> "error", kind |-> "str", text |-> "Missing product ID"]
PidAttr == [key |-> "productID", kind |-> "str", text |-> "p1"]

\* Arguments of one log call.
ArgLists == {<<>>, <<StrErrAttr>>, <<PidAttr, ErrAttr>>}
Msgs == {"", "Error fetching product"}

\* Identifiers the tracer hands out, as their String() form.
TraceIdText == <<"trace-1", "trace-2", "trace-3", "trace-4", "trace-5", "trace-6",
                 "trace-7", "trace-8", "trace-9", "trace-10", "trace-11", "trace-12">>
SpanIdText == <<"span-1", "span-2", "span-3", "span-4", "span-5", "span-6",
                "span-7", "span-8", "span-9", "span-10", "span-11", "span-12">>
RemoteTraceId == "trace-remote"
RemoteSpanId == "span-remote"

\* Contexts are immutable values: the background context, a context carrying
\* the remote parent extracted from the request headers, or the context
\* returned by the Start of span n.
Background == [kind |-> "background", span |-> 0]
Remote == [kind |-> "remote", span |-> 0]
SpanCtx(n) == [kind |-> "span", span |-> n]

NoStatus == [code |-> "Unset", desc |-> ""]
NoEvent == [name |-> "", err |-> "", attrs |-> <<>>]

VARIABLES
    impl,       \* which APMHandler implementation the service runs
    initCtx,    \* the context the handle was constructed with
    obsCtx,     \* Observability.ctx, the ambient context
    spans,      \* every span started so far, by number
    ctxBefore,  \* ctxBefore[n]: what Context() returned just before Start of n
    stack,      \* spans whose deferred End is pending, innermost last
    loggers,    \* the Log values: loggers[1] is obs.Log, the others come from With
    written,    \* how many records were handed to the wrapped sink handler
    out,        \* the records the last log call handed to it
    sinkBroken, \* whether writes to the sink fail (stdout closed)
    call,       \* the last call made on the handle and its inputs
    hctx,       \* the ctx field of each handle, when several requests are served
    branches,   \* the goroutines working on those handles, and where each one is
    proc        \* the service process: where main is, and the Shutdowns it ran

\* What the calls on one handle leave alone.
otherVars == <<hctx, branches, proc>>

vars == <<impl, initCtx, sinkBroken, obsCtx, spans, ctxBefore, stack, loggers, written, out, call,
          otherVars>>

\* ------------------------------------------------------------------ contexts
\* trace.SpanContextFromContext(ctx).HasTraceID() / HasSpanID()
HasSpanContext(ctx) == ctx.kind # "background"

\* A remote context refers to a span of a caller outside the model (span 0)
\* or to span n of an upstream service of the model.
CtxTraceId(ctx) ==
    IF ctx.kind = "span" \/ (ctx.kind = "remote" /\ ctx.span # 0) THEN spans[ctx.span].traceId
    ELSE IF ctx.kind = "remote" THEN RemoteTraceId ELSE ""

CtxSpanId(ctx) ==
    IF ctx.kind = "span" \/ (ctx.kind = "remote" /\ ctx.span # 0) THEN spans[ctx.span].spanId
    ELSE IF ctx.kind = "remote" THEN RemoteSpanId ELSE ""

\* trace.SpanFromContext(ctx).IsRecording(): a local span that has not ended.
IsRecording(ctx) == ctx.kind = "span" /\ ~spans[ctx.span].ended

\* trace.SpanFromContext(ctx): the span a context carries.
SpanFromContext_root(ctx) == 1
SpanFromContext(ctx) == ctx.span

\* Observability.Context()
Context == obsCtx

\* ------------------------------------------------------------------ tracing
\* The restore point Trace.Start stores in the Span wrapper.
SavedParent_fromArg(ctxArg, ambient) == ctxArg
SavedParent(ctxArg, ambient) == ambient

\* The context Span.End puts back into the handle.
Restored_keep(s, ambient) == ambient
Restored(s, ambient) == spans[s].parentCtx

\* tracer.Start(ctx, name): a child of the span context in ctx, or a new root.
NewSpan(n, ctxArg, ambient) ==
    [ parent    |-> ctxArg,
      parentCtx |-> SavedParent(ctxArg, ambient),
      traceId   |-> IF HasSpanContext(ctxArg) THEN CtxTraceId(ctxArg) ELSE TraceIdText[n],
      spanId    |-> SpanIdText[n],
      ended     |-> FALSE,
      status    |-> NoStatus,
      nEvents   |-> 0,
      lastEvent |-> NoEvent ]

\* Contexts a caller can hold when it calls Start: the one the handle was
\* built from and those returned by the Starts of the enclosing open spans.
HeldCtxs == {initCtx} \cup {SpanCtx(stack[i]) : i \in 1..Len(stack)}

\* ------------------------------------------------------------------ span mirror
\* The operations of the Span interface the handlers use. The events of a
\* span are only ever appended to and exported: the model keeps how many
\* there are and the newest one.
AddEvent(span, name, attrs) ==
    [span EXCEPT !.nEvents = @ + 1,
                 !.lastEvent = [name |-> name, err |-> "", attrs |-> attrs]]

\* RecordError adds an "exception" event that carries the error.
RecordError(span, errText, attrs) ==
    [span EXCEPT !.nEvents = @ + 1,
                 !.lastEvent = [name |-> "exception", err |-> errText, attrs |-> attrs]]

SetStatus(span, code, desc) == [span EXCEPT !.status = [code |-> code, desc |-> desc]]

\* attribute.String(key, value)
KeyValue(k, v) == [key |-> k, value |-> v]

\* convertSlogAttrsToAPMAttrsFromSlice: every value becomes its String() form.
convertSlogAttrsToAPMAttrsFromSlice(slogAttrs) ==
    [i \in 1..Len(slogAttrs) |-> KeyValue(slogAttrs[i].key, slogAttrs[i].text)]

\* The r.Attrs loop of Handle: the index of the first field named "error"
\* that holds an error value, 0 when there is none.
RECURSIVE FindLoggedErrFrom(_, _)
FindLoggedErrFrom(attrs, i) ==
    IF i > Len(attrs) THEN 0
    ELSE IF attrs[i].key = "error" /\ attrs[i].kind = "err" THEN i
    ELSE FindLoggedErrFrom(attrs, i + 1)

FindLoggedErr(attrs) == FindLoggedErrFrom(attrs, 1)

\* getTraceID / getSpanID of the frontend service: the ids every log line is
\* to carry, with the sentinels for a context that has none.
getTraceID(ctx) == IF HasSpanContext(ctx) THEN CtxTraceId(ctx) ELSE "no-trace"
getSpanID(ctx) == IF HasSpanContext(ctx) THEN CtxSpanId(ctx) ELSE "no-span"

\* r.AddAttrs(trace.id, span.id) of the handlers that stamp the record.
StampIds(r, ctx) ==
    [r EXCEPT !.attrs = @
        \o (IF HasSpanContext(ctx)
            THEN << [key |-> "trace.id", kind |-> "str", text |-> CtxTraceId(ctx)] >> ELSE <<>>)
        \o (IF HasSpanContext(ctx)
            THEN << [key |-> "span.id", kind |-> "str", text |-> CtxSpanId(ctx)] >> ELSE <<>>)]

\* What the wrapped handler receives: the fields it was given through
\* WithAttrs, then the fields of the record.
SinkRecord(hattrs, r) == [level |-> r.level, msg |-> r.msg, attrs |-> hattrs \o r.attrs]

\* ---- frontend-service/observability/log.go
ErrorEventAttrs_frontend_service(allAttrs, r, found) ==
    convertSlogAttrsToAPMAttrsFromSlice(allAttrs)
        \o << KeyValue("event", "log_error") >>
        \o (IF found THEN << KeyValue("message", r.msg) >> ELSE <<>>)

MirrorsEvent_frontend_service_all(level) == level # "ERROR"
MirrorsEvent_frontend_service(level) == level = "INFO" \/ level = "WARN"

Handle_frontend_service(hattrs, ctx, r) ==
    IF IsRecording(ctx)
    THEN LET r1 == StampIds(r, ctx)
             allAttrs == hattrs \o r1.attrs
             span == spans[SpanFromContext(ctx)]
             e == FindLoggedErr(r1.attrs)
             mirrored ==
                IF r1.level = "ERROR"
                THEN IF e # 0
                     THEN SetStatus(RecordError(span, r1.attrs[e].text,
                                        ErrorEventAttrs_frontend_service(allAttrs, r1, TRUE)),
                                    "Error", r1.attrs[e].text)
                     ELSE SetStatus(RecordError(span, r1.msg,
                                        ErrorEventAttrs_frontend_service(allAttrs, r1, FALSE)),
                                    "Error", r1.msg)
                ELSE IF MirrorsEvent_frontend_service(r1.level)
                THEN AddEvent(span, r1.msg, convertSlogAttrsToAPMAttrsFromSlice(allAttrs))
                ELSE span
         IN [spans |-> [spans EXCEPT ![SpanFromContext(ctx)] = mirrored], out |-> << SinkRecord(hattrs, r1) >>]
    ELSE [spans |-> spans, out |-> << SinkRecord(hattrs, r) >>]

\* ---- product/observability/log.go
IsErrorLevel_product(level) == Severity[level] >= Severity["ERROR"]

RecordedErr_product_noFallback(r, e) == IF e # 0 THEN r.attrs[e].text ELSE ""
RecordedErr_product(r, e) == IF e # 0 THEN r.attrs[e].text ELSE r.msg

EventAttrs_product_none(r) == <<>>
EventAttrs_product(r) == [i \in 1..Len(r.attrs) |-> KeyValue(r.attrs[i].key, r.attrs[i].text)]

Handle_product(hattrs, ctx, r) ==
    IF ~IsRecording(ctx)
    THEN [spans |-> spans, out |-> << SinkRecord(hattrs, r) >>]
    ELSE LET span == spans[SpanFromContext(ctx)]
             e == FindLoggedErr(r.attrs)
             mirrored ==
                IF IsErrorLevel_product(r.level)
                THEN SetStatus(RecordError(span, RecordedErr_product(r, e), <<>>), "Error", r.msg)
                ELSE AddEvent(span, r.msg, EventAttrs_product(r))
         IN [spans |-> [spans EXCEPT ![SpanFromContext(ctx)] = mirrored], out |-> << SinkRecord(hattrs, r) >>]

\* ---- product-service/main.go
SinkWrites_product_service_recordingOnly(recording, rec) == IF recording THEN << rec >> ELSE <<>>
SinkWrites_product_service(recording, rec) == << rec >>

Handle_product_service(hattrs, ctx, r) ==
    IF IsRecording(ctx)
    THEN LET r1 == StampIds(r, ctx)
             allAttrs == hattrs \o r1.attrs
             span == spans[SpanFromContext(ctx)]
             e == FindLoggedErr(r1.attrs)
             mirrored ==
                IF r1.level = "ERROR"
                THEN IF e # 0
                     THEN SetStatus(RecordError(span, r1.attrs[e].text,
                                        << KeyValue("event", "log_error"),
                                           KeyValue("message", r1.msg) >>),
                                    "Error", r1.attrs[e].text)
                     ELSE SetStatus(RecordError(span, r1.msg,
                                        << KeyValue("event", "log_error") >>),
                                    "Error", r1.msg)
                ELSE IF r1.level = "INFO" \/ r1.level = "WARN"
                THEN AddEvent(span, r1.msg, convertSlogAttrsToAPMAttrsFromSlice(allAttrs))
                ELSE span
         IN [spans |-> [spans EXCEPT ![SpanFromContext(ctx)] = mirrored],
             out |-> SinkWrites_product_service(TRUE, SinkRecord(hattrs, r1))]
    ELSE [spans |-> spans, out |-> SinkWrites_product_service(FALSE, SinkRecord(hattrs, r))]

\* logger.Handler().Handle(ctx, r) of the implementation in use.
Handle(hattrs, ctx, r) ==
    CASE impl = "frontend-service" -> Handle_frontend_service(hattrs, ctx, r)
      [] impl = "product" -> Handle_product(hattrs, ctx, r)
      [] impl = "product-service" -> Handle_product_service(hattrs, ctx, r)

\* ------------------------------------------------------------------ Log
\* Log.getCtx: the handle's context at the time of the call.
getCtx_snapshot(l) == loggers[l].born
getCtx(l) == Context

\* Handler.Enabled of the wrapped JSON handler.
Enabled(level) == Severity[level] >= Severity[SinkLevel]

\* Log.log has no result: the error Handle returns is assigned to _.
Raises(handleErr) == FALSE

NoCall == [op |-> "none", span |-> 0, logger |-> 0, level |-> "", msg |-> "",
           args |-> <<>>, ctx |-> Background, recording |-> FALSE, wasError |-> FALSE,
           raised |-> FALSE, branch |-> 0]

\* Log.Debug / Info / Warn / Error on the Log value l.
LogCall(l, level, msg, args) ==
    /\ written < MaxLogs
    /\ LET ctx == getCtx(l)
           r == [level |-> level, msg |-> msg, attrs |-> args]
           res == Handle(loggers[l].attrs, ctx, r)
       IN  /\ IF Enabled(level)
              THEN /\ spans' = res.spans
                   /\ out' = res.out
                   /\ written' = written + Len(res.out)
              ELSE /\ out' = <<>>
                   /\ UNCHANGED <<spans, written>>
           /\ call' = [NoCall EXCEPT !.op = "log", !.logger = l, !.level = level,
                                     !.msg = msg, !.args = args, !.ctx = obsCtx,
                                     !.recording = IsRecording(obsCtx),
                                     !.wasError = IsRecording(obsCtx) /\
                                        spans[obsCtx.span].status.code = "Error",
                                     !.raised = Enabled(level) /\ Raises(sinkBroken)]
    /\ UNCHANGED <<otherVars, impl, initCtx, sinkBroken, obsCtx, ctxBefore, stack, loggers>>

\* APMHandler.WithAttrs under Log.With: the receiver's accumulated fields, then
\* the new ones; the receiver is left as it was.
LogWith(log, args, ambient) == [attrs |-> log.attrs \o args, born |-> ambient]

\* WithAttrs returns a new handler over a freshly made slice: the Log values
\* that exist stay as they are and the new one is added.
WithAttrs_inPlace(logs, new, l) == Append([logs EXCEPT ![l] = new], new)
WithAttrs(logs, new, l) == Append(logs, new)

\* Log.With(args...): a new Log value over logger.With(args...), whose handler
\* is APMHandler.WithAttrs of the receiver's.
With(l, args) ==
    /\ loggers' = WithAttrs(loggers, LogWith(loggers[l], args, obsCtx), l)
    /\ call' = [NoCall EXCEPT !.op = "With", !.logger = l, !.args = args, !.ctx = obsCtx]
    /\ out' = <<>>
    /\ UNCHANGED <<otherVars, impl, initCtx, sinkBroken, obsCtx, spans, ctxBefore, stack, written>>

\* Trace.Start(ctx, name) on the handle.
Start(ctxArg) ==
    /\ Len(spans) < MaxSpans
    /\ LET n == Len(spans) + 1 IN
        /\ spans' = Append(spans, NewSpan(n, ctxArg, Context))
        /\ ctxBefore' = Append(ctxBefore, obsCtx)
        /\ obsCtx' = SpanCtx(n)
        /\ stack' = Append(stack, n)
        /\ call' = [NoCall EXCEPT !.op = "Start", !.span = n, !.ctx = ctxArg]
    /\ out' = <<>>
    /\ UNCHANGED <<otherVars, impl, initCtx, sinkBroken, loggers, written>>

\* The deferred Span.End of the innermost open span.
End ==
    /\ stack # <<>>
    /\ LET s == stack[Len(stack)] IN
        /\ obsCtx' = Restored(s, obsCtx)
        /\ spans' = [spans EXCEPT ![s].ended = TRUE]
        /\ stack' = SubSeq(stack, 1, Len(stack) - 1)
        /\ call' = [NoCall EXCEPT !.op = "End", !.span = s, !.ctx = obsCtx]
    /\ out' = <<>>
    /\ UNCHANGED <<otherVars, impl, initCtx, sinkBroken, ctxBefore, loggers, written>>

\* What Span.End writes to the log when the span had already ended: nothing.
DoubleEndWarning(s) == <<>>

\* Span.End called again on a span that has ended: the wrapper puts its
\* parentCtx back into the handle once more; the ended span ignores the End.
EndAgain(s) ==
    /\ s \in 1..Len(spans)
    /\ spans[s].ended
    /\ obsCtx' = Restored(s, obsCtx)
    /\ out' = DoubleEndWarning(s)
    /\ call' = [NoCall EXCEPT !.op = "EndAgain", !.span = s, !.ctx = obsCtx]
    /\ UNCHANGED <<otherVars, impl, initCtx, sinkBroken, spans, ctxBefore, stack, loggers, written>>

\* No goroutine but the one that owns the handle.
NoProc == [main |-> "", apm |-> "", pc |-> "", tracing |-> FALSE, registered |-> FALSE,
           shutdowns |-> 0, exit |-> -1]
OthersIdle == hctx = <<>> /\ branches = <<>> /\ proc = NoProc

\* NewObservability(ctx, ...): a handle over the background context or over
\* the context extracted from the request headers.
InitHandle ==
    /\ impl \in Impls
    /\ initCtx \in {Background, Remote}
    /\ obsCtx = initCtx
    /\ spans = <<>>
    /\ ctxBefore = <<>>
    /\ stack = <<>>
    /\ loggers = << [attrs |-> <<>>, born |-> initCtx] >>
    /\ written = 0
    /\ out = <<>>
    /\ call = NoCall
    /\ OthersIdle

\* ---- the handle under every nesting of Start and End
Init == InitHandle /\ sinkBroken = FALSE

Next ==
    \/ \E c \in HeldCtxs : Start(c)
    \/ End

Spec == Init /\ [][Next]_vars

\* ---- Log values derived and used while spans open and close
MirrorNext ==
    \/ Len(spans) < MirrorSpans /\ Start(Context)
    \/ End
    \/ \E l \in 1..Len(loggers) : Len(loggers) < MaxLoggers /\ With(l, << PidAttr >>)
    \/ \E l \in 1..Len(loggers), lv \in Levels :
            written < MirrorLogs /\ LogCall(l, lv, "Processing request", <<>>)

MirrorSpec == Init /\ [][MirrorNext]_vars

\* ---- the handlers under every log call, around the root span of a request
\* The request holds obs.Log and obs.Log.With("productID", id).With("error", err).
LogInit ==
    /\ impl \in Impls
    /\ initCtx \in {Background, Remote}
    /\ sinkBroken \in BOOLEAN
    /\ obsCtx = initCtx
    /\ spans = <<>>
    /\ ctxBefore = <<>>
    /\ stack = <<>>
    /\ LET base == [attrs |-> <<>>, born |-> initCtx]
           withId == LogWith(base, << PidAttr >>, initCtx)
       IN loggers = << base, LogWith(withId, << ErrAttr >>, initCtx) >>
    /\ written = 0
    /\ out = <<>>
    /\ call = NoCall
    /\ OthersIdle

LogNext ==
    \/ spans = <<>> /\ Start(Context)
    \/ End
    \/ \E l \in 1..Len(loggers), lv \in Levels, m \in Msgs, a \in ArgLists : LogCall(l, lv, m, a)

LogSpec == LogInit /\ [][LogNext]_vars

\* ---- a caller that also calls End on spans it has already ended
MisuseNext ==
    \/ Start(Context)
    \/ End
    \/ \E s \in 1..Len(spans) : EndAgain(s)

MisuseSpec == Init /\ [][MisuseNext]_vars

\* ---- a request whose child spans open and close under its root span, with
\* info and error logs in between
NestNext ==
    \/ Start(Context)
    \/ End
    \/ \E lv \in {"INFO", "ERROR"} : LogCall(1, lv, "Error fetching product", <<>>)

NestSpec == Init /\ [][NestNext]_vars

\* ---- requests served concurrently, each by its own goroutine
\* What the propagator extracts from the headers of a request: the caller's
\* span context, or nothing.
Extracted == {Background, Remote}

\* The handle NewObservabilityFromRequest returns for request q: a new one.
NewObservabilityFromRequest_global(q) == 1
NewObservabilityFromRequest(q) == q

\* A goroutine about to call Start on handle h with the context ctx.
Branch(h, ctx) == [pc |-> "start", handle |-> h, held |-> ctx, parentCtx |-> Background, span |-> 0]

\* Trace.Start, first statement: parentCtx := t.obs.Context()
BranchStartRead(b) ==
    /\ branches[b].pc = "start"
    /\ branches' = [branches EXCEPT ![b].pc = "tracerStart",
                                    ![b].parentCtx = hctx[branches[b].handle]]
    /\ call' = [NoCall EXCEPT !.op = "Context", !.branch = b, !.ctx = hctx[branches[b].handle]]
    /\ out' = <<>>
    /\ UNCHANGED <<proc, hctx, impl, initCtx, sinkBroken, obsCtx, spans, ctxBefore, stack, loggers, written>>

\* Trace.Start, the rest: tracer.Start(ctx, name), SetContext(newCtx).
BranchStartSet(b) ==
    /\ branches[b].pc = "tracerStart"
    /\ LET n == Len(spans) + 1 IN
        /\ spans' = Append(spans, NewSpan(n, branches[b].held, branches[b].parentCtx))
        /\ ctxBefore' = Append(ctxBefore, branches[b].parentCtx)
        /\ hctx' = [hctx EXCEPT ![branches[b].handle] = SpanCtx(n)]
        /\ branches' = [branches EXCEPT ![b].pc = "log", ![b].span = n]
        /\ call' = [NoCall EXCEPT !.op = "Start", !.branch = b, !.span = n, !.ctx = branches[b].held]
    /\ out' = <<>>
    /\ UNCHANGED <<proc, impl, initCtx, sinkBroken, obsCtx, stack, loggers, written>>

\* obs.Log.Info / Error on the handle of the goroutine.
BranchLog(b, level) ==
    /\ branches[b].pc = "log"
    /\ LET ctx == hctx[branches[b].handle]
           r == [level |-> level, msg |-> "Processing request", attrs |-> <<>>]
           res == Handle(<<>>, ctx, r)
       IN  /\ spans' = res.spans
           /\ out' = res.out
           /\ written' = written + Len(res.out)
           /\ call' = [NoCall EXCEPT !.op = "log", !.branch = b, !.logger = 1, !.level = level,
                                     !.msg = r.msg, !.ctx = ctx, !.recording = IsRecording(ctx)]
    /\ branches' = [branches EXCEPT ![b].pc = "end"]
    /\ UNCHANGED <<proc, hctx, impl, initCtx, sinkBroken, obsCtx, ctxBefore, stack, loggers>>

\* The deferred Span.End of the goroutine's span.
BranchEnd(b) ==
    /\ branches[b].pc = "end"
    /\ LET s == branches[b].span IN
        /\ hctx' = [hctx EXCEPT ![branches[b].handle] = Restored(s, hctx[branches[b].handle])]
        /\ spans' = [spans EXCEPT ![s].ended = TRUE]
        /\ call' = [NoCall EXCEPT !.op = "End", !.branch = b, !.span = s,
                                  !.ctx = hctx[branches[b].handle]]
    /\ branches' = [branches EXCEPT ![b].pc = "done"]
    /\ out' = <<>>
    /\ UNCHANGED <<proc, impl, initCtx, sinkBroken, obsCtx, ctxBefore, stack, loggers, written>>

BranchNext ==
    \E b \in DOMAIN branches :
        \/ BranchStartRead(b)
        \/ BranchStartSet(b)
        \/ \E lv \in {"INFO", "ERROR"} : BranchLog(b, lv)
        \/ BranchEnd(b)

\* The process before any request: no span, the background handle unused.
ProcessInit ==
    /\ impl \in Impls
    /\ sinkBroken = FALSE
    /\ initCtx = Background
    /\ obsCtx = Background
    /\ spans = <<>>
    /\ ctxBefore = <<>>
    /\ stack = <<>>
    /\ loggers = << [attrs |-> <<>>, born |-> Background] >>
    /\ written = 0
    /\ out = <<>>
    /\ call = NoCall

\* The http server runs the handler of each request in a goroutine of its own.
ReqInit ==
    /\ ProcessInit
    /\ proc = NoProc
    /\ hctx \in [1..NumRequests -> Extracted]
    /\ branches = [q \in 1..NumRequests |-> Branch(NewObservabilityFromRequest(q), hctx[q])]

ReqSpec == ReqInit /\ [][BranchNext]_vars

\* ---- goroutines of one request that all work on the handle of the request
\* ObsFromCtx gives each of them the one handle stored in the context.
ForkInit ==
    /\ ProcessInit
    /\ proc = NoProc
    /\ hctx \in [1..1 -> Extracted]
    /\ branches = [b \in 1..NumBranches |-> Branch(1, hctx[1])]

ForkSpec == ForkInit /\ [][BranchNext]_vars

\* ---- a function handed a context in which no handle was stored
\* ObsFromCtx: the handle stored in the context, or else &Observability{},
\* whose Trace and Log pointers are nil.
StoredObservability == [Trace |-> "set", Log |-> "set"]
EmptyObservability == [Trace |-> "nil", Log |-> "nil"]
ObsFromCtx(found) == IF found THEN StoredObservability ELSE EmptyObservability

\* The methods of the handle the services call.
ObsMethods == {"Trace.Start", "Log.Debug", "Log.Info", "Log.Warn", "Log.Error", "Log.With"}

\* Each of these methods reads a field of its receiver first (t.obs, l.obs,
\* l.logger): on a nil receiver that is a nil pointer dereference.
NilDereference(obs, method) ==
    IF method = "Trace.Start" THEN obs.Trace = "nil" ELSE obs.Log = "nil"

\* obs := ObsFromCtx(ctx); obs.<method>(...) where ctx holds no handle.
CallWithoutHandle(method) ==
    /\ call' = [NoCall EXCEPT !.op = "nohandle", !.msg = method, !.ctx = obsCtx,
                              !.raised = NilDereference(ObsFromCtx(FALSE), method)]
    /\ out' = <<>>
    /\ UNCHANGED <<otherVars, impl, initCtx, sinkBroken, obsCtx, spans, ctxBefore, stack,
                   loggers, written>>

NoHandleNext ==
    \/ Start(Context)
    \/ End
    \/ \E m \in ObsMethods : CallWithoutHandle(m)

NoHandleSpec == Init /\ [][NoHandleNext]_vars

\* ---- the life of a service process
\* The main functions: those built on the observability package, and the
\* plain ones that call the tracer and log.Printf directly.
Mains == {"observability", "plain"}

\* What ListenAndServe can return: the server was closed, or it failed.
ListenErrs == {"ErrServerClosed", "listen tcp: address already in use"}

\* Whether main leaves through os.Exit once ListenAndServe has returned:
\* log.Fatal(http.ListenAndServe(...)) always does, the other mains do
\* when the error is not http.ErrServerClosed.
ExitsOnListenErr(main, err) == main = "plain" \/ err # "ErrServerClosed"

\* SetupTracing / initTracerProvider, then defer tp.Shutdown; a failure ends
\* the process at once.
SetupTracing(ok) ==
    /\ proc.pc = "setup"
    /\ proc' = IF ok THEN [proc EXCEPT !.pc = "serving", !.tracing = TRUE, !.registered = TRUE]
                     ELSE [proc EXCEPT !.pc = "exited", !.exit = 1]
    /\ call' = [NoCall EXCEPT !.op = "SetupTracing"]
    /\ out' = <<>>
    /\ UNCHANGED <<hctx, branches, impl, initCtx, sinkBroken, obsCtx, spans, ctxBefore, stack,
                   loggers, written>>

\* ListenAndServe returns err: os.Exit(1) skips the deferred functions, a
\* return from main runs them.
ListenAndServeReturns(err) ==
    /\ proc.pc = "serving"
    /\ proc' = IF ExitsOnListenErr(proc.main, err)
               THEN [proc EXCEPT !.pc = "exited", !.exit = 1]
               ELSE [proc EXCEPT !.pc = "exited", !.shutdowns = @ + 1, !.exit = 0]
    /\ call' = [NoCall EXCEPT !.op = "ListenAndServe", !.msg = err]
    /\ out' = <<>>
    /\ UNCHANGED <<hctx, branches, impl, initCtx, sinkBroken, obsCtx, spans, ctxBefore, stack,
                   loggers, written>>

MainInit ==
    /\ ProcessInit
    /\ hctx = <<>>
    /\ branches = <<>>
    /\ proc \in [main : Mains, apm : {"OTLP"}, pc : {"setup"}, tracing : {FALSE},
                 registered : {FALSE}, shutdowns : {0}, exit : {-1}]

MainNext ==
    \/ \E ok \in BOOLEAN : SetupTracing(ok)
    \/ \E err \in ListenErrs : ListenAndServeReturns(err)
    \/ proc.pc = "serving" /\ Start(Context)
    \/ proc.pc = "serving" /\ End

MainSpec == MainInit /\ [][MainNext]_vars

\* ---- the product service started with each value of APM_TYPE
\* APM_TYPE as main reads it: the two types the package knows, and others.
ApmTypes == {"OTLP", "DataDog", "none", "otlp"}

\* The switch of SetupTracing: the types it sets a backend up for.
SupportedAPM_any(apmType) == TRUE
SupportedAPM(apmType) == apmType = "OTLP" \/ apmType = "DataDog"

\* NewTrace: the Tracer of the handle, nil when the switch matches no case.
NewTrace(apmType) ==
    IF apmType = "OTLP" THEN "OTelTracer"
    ELSE IF apmType = "DataDog" THEN "DataDogTracer" ELSE "nil"

\* tp, err := SetupTracing(..., string(APMType)); on an error main logs it
\* and leaves through os.Exit(1). The backend itself may fail to start too.
SetupTracingFor(backendOk) ==
    /\ proc.pc = "setup"
    /\ proc' = IF SupportedAPM(proc.apm) /\ backendOk
               THEN [proc EXCEPT !.pc = "register", !.tracing = TRUE]
               ELSE [proc EXCEPT !.pc = "exited", !.exit = 1]
    /\ call' = [NoCall EXCEPT !.op = "SetupTracing", !.msg = proc.apm]
    /\ out' = <<>>
    /\ UNCHANGED <<hctx, branches, impl, initCtx, sinkBroken, obsCtx, spans, ctxBefore, stack,
                   loggers, written>>

\* http.HandleFunc("/product", ...), then the server is started.
RegisterHandlers ==
    /\ proc.pc = "register"
    /\ proc' = [proc EXCEPT !.pc = "serving", !.registered = TRUE]
    /\ call' = [NoCall EXCEPT !.op = "HandleFunc"]
    /\ out' = <<>>
    /\ UNCHANGED <<hctx, branches, impl, initCtx, sinkBroken, obsCtx, spans, ctxBefore, stack,
                   loggers, written>>

\* obs.Trace.Start(...) in a request: Trace embeds the Tracer interface, and
\* a method call on a nil interface value panics.
TracerStart ==
    /\ proc.pc = "serving"
    /\ Len(spans) < MaxSpans
    /\ LET n == Len(spans) + 1
           nil == NewTrace(proc.apm) = "nil"
       IN  /\ spans' = IF nil THEN spans ELSE Append(spans, NewSpan(n, Context, Context))
           /\ ctxBefore' = IF nil THEN ctxBefore ELSE Append(ctxBefore, obsCtx)
           /\ obsCtx' = IF nil THEN obsCtx ELSE SpanCtx(n)
           /\ stack' = IF nil THEN stack ELSE Append(stack, n)
           /\ call' = [NoCall EXCEPT !.op = "Start", !.span = IF nil THEN 0 ELSE n,
                                     !.ctx = Context, !.raised = nil]
    /\ out' = <<>>
    /\ UNCHANGED <<otherVars, impl, initCtx, sinkBroken, loggers, written>>

ApmInit ==
    /\ ProcessInit
    /\ hctx = <<>>
    /\ branches = <<>>
    /\ proc \in [main : {"observability"}, apm : ApmTypes, pc : {"setup"}, tracing : {FALSE},
                 registered : {FALSE}, shutdowns : {0}, exit : {-1}]

ApmNext ==
    \/ \E ok \in BOOLEAN : SetupTracingFor(ok)
    \/ RegisterHandlers
    \/ TracerStart
    \/ proc.pc = "serving" /\ End
    \/ \E err \in ListenErrs : ListenAndServeReturns(err)

ApmSpec == ApmInit /\ [][ApmNext]_vars

\* ---- one request through the handler, service and repository functions
\* Product ids, as the pieces strings.HasPrefix looks at.
Ids == {<<>>, << "missing-", "1" >>, << "p", "1" >>, << "missing-" >>}
HasPrefix(str, prefix) == Len(str) >= Len(prefix) /\ SubSeq(str, 1, Len(prefix)) = prefix

\* Error values: "" is nil.
ErrProductNotFound == "product not found"
ErrorsIs_never(err, target) == FALSE
ErrorsIs(err, target) == err = target

\* The functions of a request, each of which starts a span, and whether the
\* function defers span.End() right after the Start.
DefersEnd_forgotten(fn) == fn # "ProductRepository.GetProductByID"
DefersEnd(fn) == TRUE

\* A goroutine serving a request on handle h, about to run the code at pc.
Goroutine(h, pc, id) ==
    [pc |-> pc, handle |-> h, id |-> id, err |-> "", repoErr |-> "", userErr |-> "",
     info |-> "", userInfo |-> "", status |-> 0, reqCtx |-> Background, frames |-> <<>>,
     fns |-> <<>>, starts |-> <<>>, ends |-> <<>>, carrier |-> <<>>, outbound |-> 0]

\* The ctx variable of the function the goroutine is in: each function
\* rebinds ctx to what the Start of its own span returned.
LocalCtx_request(g) == branches[g].reqCtx
LocalCtx(g) ==
    IF branches[g].frames = <<>> THEN hctx[branches[g].handle]
    ELSE SpanCtx(branches[g].frames[Len(branches[g].frames)].span)

\* ctx, span := obs.Trace.Start(ctx, fn): the prologue of function fn.
Enter(g, at, fn, to) ==
    /\ branches[g].pc = at
    /\ LET n == Len(spans) + 1
           h == branches[g].handle
       IN  /\ spans' = Append(spans, NewSpan(n, LocalCtx(g), hctx[h]))
           /\ ctxBefore' = Append(ctxBefore, hctx[h])
           /\ hctx' = [hctx EXCEPT ![h] = SpanCtx(n)]
           /\ branches' = [branches EXCEPT ![g].pc = to,
                                           ![g].frames = Append(@, [fn |-> fn, span |-> n]),
                                           ![g].starts = Append(@, n),
                                           ![g].fns = Append(@, fn)]
           /\ call' = [NoCall EXCEPT !.op = "Start", !.branch = g, !.span = n, !.ctx = LocalCtx(g)]
    /\ out' = <<>>
    /\ UNCHANGED <<proc, impl, initCtx, sinkBroken, obsCtx, stack, loggers, written>>

\* obs.Log.With(with...).<level>(msg, args...), after which the goroutine is as in next.
Say(g, at, with, level, msg, args, next) ==
    /\ branches[g].pc = at
    /\ LET ctx == hctx[branches[g].handle]
           r == [level |-> level, msg |-> msg, attrs |-> args]
           res == Handle(LogWith([attrs |-> <<>>, born |-> ctx], with, ctx).attrs, ctx, r)
       IN  /\ spans' = res.spans
           /\ out' = res.out
           /\ written' = written + Len(res.out)
           /\ call' = [NoCall EXCEPT !.op = "log", !.branch = g, !.level = level, !.msg = msg,
                                     !.args = args, !.ctx = ctx, !.recording = IsRecording(ctx)]
    /\ branches' = [branches EXCEPT ![g] = next]
    /\ UNCHANGED <<hctx, proc, impl, initCtx, sinkBroken, obsCtx, ctxBefore, stack, loggers>>

\* return from the function the goroutine is in: its deferred span.End() runs.
Return(g, at, to) ==
    /\ branches[g].pc = at
    /\ LET h == branches[g].handle
           top == branches[g].frames[Len(branches[g].frames)]
           rest == SubSeq(branches[g].frames, 1, Len(branches[g].frames) - 1)
       IN  IF DefersEnd(top.fn)
           THEN /\ hctx' = [hctx EXCEPT ![h] = Restored(top.span, hctx[h])]
                /\ spans' = [spans EXCEPT ![top.span].ended = TRUE]
                /\ branches' = [branches EXCEPT ![g].pc = to, ![g].frames = rest,
                                                ![g].ends = Append(@, top.span)]
                /\ call' = [NoCall EXCEPT !.op = "End", !.branch = g, !.span = top.span,
                                          !.ctx = hctx[h]]
           ELSE /\ branches' = [branches EXCEPT ![g].pc = to, ![g].frames = rest]
                /\ call' = [NoCall EXCEPT !.op = "return", !.branch = g]
                /\ UNCHANGED <<hctx, spans>>
    /\ out' = <<>>
    /\ UNCHANGED <<proc, impl, initCtx, sinkBroken, obsCtx, ctxBefore, stack, loggers, written>>

\* A step of the goroutine that makes no call on the handle.
Step(g, at, next) ==
    /\ branches[g].pc = at
    /\ branches' = [branches EXCEPT ![g] = next]
    /\ call' = [NoCall EXCEPT !.op = "step", !.branch = g, !.msg = at]
    /\ out' = <<>>
    /\ UNCHANGED <<hctx, proc, impl, initCtx, sinkBroken, obsCtx, spans, ctxBefore, stack,
                   loggers, written>>

\* ---- the product service
\* ProductRepository.GetProductByID: ids that start with "missing-" are not found.
RepoLookup(id) == IF HasPrefix(id, << "missing-" >>) THEN ErrProductNotFound ELSE ""

\* GetProductInfo returns the repository's error as it is.
ServiceErr_wrapped(repoErr) == IF repoErr = "" THEN "" ELSE "service: lookup failed"
ServiceErr(repoErr) == repoErr

\* handleProduct: the answer for what the service returned.
StatusFor(err) == IF err = "" THEN 200 ELSE IF ErrorsIs(err, ErrProductNotFound) THEN 404 ELSE 500

\* handleProduct, from the Start of its span to the call of the service.
HandleProductCheck(g) ==
    IF branches[g].id = <<>>
    THEN Say(g, "pr.hp", <<>>, "ERROR", "Missing product ID", <<>>,
             [branches[g] EXCEPT !.pc = "pr.hp.ret", !.status = 400])
    ELSE Say(g, "pr.hp", <<>>, "DEBUG", "Searching for product info", << PidAttr >>,
             [branches[g] EXCEPT !.pc = "pr.svc"])

\* GetProductByID, after its first log.
RepoFind(g) ==
    IF RepoLookup(branches[g].id) # ""
    THEN Say(g, "pr.repo.find", << PidAttr >>, "WARN", "Product not found in repository", <<>>,
             [branches[g] EXCEPT !.pc = "pr.repo.ret", !.repoErr = RepoLookup(branches[g].id)])
    ELSE Say(g, "pr.repo.find", << PidAttr >>, "DEBUG", "Product found in repository", <<>>,
             [branches[g] EXCEPT !.pc = "pr.repo.ret", !.info = "Product ABC"])

\* GetProductInfo, after the repository returned.
ServiceAfterRepo(g) ==
    IF branches[g].repoErr # ""
    THEN Say(g, "pr.svc.after", << PidAttr, ErrAttr >>, "ERROR", "Error fetching product", <<>>,
             [branches[g] EXCEPT !.pc = "pr.svc.ret", !.err = ServiceErr(branches[g].repoErr),
                                 !.info = ""])
    ELSE Say(g, "pr.svc.after", << PidAttr >>, "INFO", "Successfully retrieved product info", <<>>,
             [branches[g] EXCEPT !.pc = "pr.svc.ret"])

\* handleProduct, after the service returned.
HandleProductRespond(g) ==
    LET next == [branches[g] EXCEPT !.pc = "pr.hp.ret", !.status = StatusFor(branches[g].err)] IN
    IF branches[g].err = ""
    THEN Say(g, "pr.hp.after", <<>>, "INFO", "Product info fetched successfully", <<>>, next)
    ELSE IF ErrorsIs(branches[g].err, ErrProductNotFound)
         THEN Step(g, "pr.hp.after", next)
         ELSE Say(g, "pr.hp.after", <<>>, "ERROR", "Failed to fetch product info", << ErrAttr >>, next)

ProductNext(g) ==
    \/ Enter(g, "pr.handler", "/product", "pr.call")
    \/ Enter(g, "pr.call", "handleProduct", "pr.hp")
    \/ HandleProductCheck(g)
    \/ Enter(g, "pr.svc", "ProductService.GetProductInfo", "pr.svc.log")
    \/ Say(g, "pr.svc.log", << PidAttr >>, "DEBUG", "Processing request", <<>>,
           [branches[g] EXCEPT !.pc = "pr.repo"])
    \/ Enter(g, "pr.repo", "ProductRepository.GetProductByID", "pr.repo.log")
    \/ Say(g, "pr.repo.log", << PidAttr >>, "DEBUG", "Fetching product data", <<>>,
           [branches[g] EXCEPT !.pc = "pr.repo.find"])
    \/ RepoFind(g)
    \/ Return(g, "pr.repo.ret", "pr.svc.after")
    \/ ServiceAfterRepo(g)
    \/ Return(g, "pr.svc.ret", "pr.hp.after")
    \/ HandleProductRespond(g)
    \/ Return(g, "pr.hp.ret", "pr.handler.ret")
    \/ Return(g, "pr.handler.ret", "pr.done")

\* A client that calls the product service itself.
DirectInit ==
    /\ ProcessInit
    /\ proc = NoProc
    /\ \E c \in Extracted, id \in Ids :
          /\ hctx = << Background, c >>
          /\ branches = << Goroutine(1, "fe.idle", id),
                           [Goroutine(2, "pr.handler", id) EXCEPT !.reqCtx = c] >>

ProductSpec == DirectInit /\ [][ProductNext(2)]_vars

\* ---- the frontend, which calls the product service and the user service
\* propagation.TraceContext: Inject writes the ids of the span context of ctx
\* into the traceparent header, or nothing when ctx has none.
Inject(ctx) == IF HasSpanContext(ctx) THEN << CtxTraceId(ctx), CtxSpanId(ctx) >> ELSE <<>>

\* Extract: the remote span context the header names, if there is a header.
Extract(carrier) ==
    IF carrier = <<>> THEN Background
    ELSE IF carrier = << RemoteTraceId, RemoteSpanId >> THEN Remote
    ELSE [kind |-> "remote",
          span |-> CHOOSE n \in 1..Len(spans) :
                        spans[n].traceId = carrier[1] /\ spans[n].spanId = carrier[2]]

\* The context callProductService / callUserService hand to Inject: their own
\* ctx, which the Start of their span returned.
InjectedCtx_param(g) == SpanCtx(branches[g].frames[Len(branches[g].frames) - 1].span)
InjectedCtx(g) == LocalCtx(g)

\* otel.GetTextMapPropagator().Inject(ctx, propagation.HeaderCarrier(req.Header))
InjectHeaders(g, at, to) ==
    Step(g, at, [branches[g] EXCEPT !.pc = to, !.carrier = Inject(InjectedCtx(g)),
                                    !.outbound = branches[g].frames[Len(branches[g].frames)].span])

\* handleProductDetail, from the Start of its span to the call of the service.
FrontendCheck(g) ==
    IF branches[g].id = <<>>
    THEN Say(g, "fe.hpd", <<>>, "ERROR", "Missing product ID", <<>>,
             [branches[g] EXCEPT !.pc = "fe.hpd.ret", !.status = 400])
    ELSE Say(g, "fe.hpd", <<>>, "DEBUG", "Searching for product info", << PidAttr >>,
             [branches[g] EXCEPT !.pc = "fe.gpi"])

\* client.Do(req) of callProductService: the request does not get through,
\* or the product service starts to serve it with the headers it carries.
ClientDo(g, d) ==
    /\ branches[g].pc = "fe.cps.do"
    /\ \E sent \in BOOLEAN :
          /\ branches' =
                IF sent
                THEN [branches EXCEPT ![g].pc = "fe.cps.wait",
                                      ![d] = [Goroutine(d, "pr.handler", branches[g].id)
                                                EXCEPT !.reqCtx = Extract(branches[g].carrier)]]
                ELSE [branches EXCEPT ![g].pc = "fe.cps.ret",
                                      ![g].err = "dial tcp: connection refused"]
          /\ hctx' = IF sent THEN [hctx EXCEPT ![d] = Extract(branches[g].carrier)] ELSE hctx
    /\ call' = [NoCall EXCEPT !.op = "Do", !.branch = g]
    /\ out' = <<>>
    /\ UNCHANGED <<proc, impl, initCtx, sinkBroken, obsCtx, spans, ctxBefore, stack, loggers,
                   written>>

\* callProductService, once the answer of the product service is there.
Response(g, d) ==
    /\ branches[d].pc = "pr.done"
    /\ Step(g, "fe.cps.wait",
            IF branches[d].status # 200
            THEN [branches[g] EXCEPT !.pc = "fe.cps.ret", !.err = "product service returned status"]
            ELSE [branches[g] EXCEPT !.pc = "fe.cps.ret", !.info = branches[d].info])

\* handleProductDetail, after GetProductInfo returned.
FrontendAfterProduct_continue(g) ==
    IF branches[g].err # ""
    THEN Say(g, "fe.hpd.after", <<>>, "ERROR", "Failed to fetch product info", << ErrAttr >>,
             [branches[g] EXCEPT !.pc = "fe.gui", !.status = 500])
    ELSE Step(g, "fe.hpd.after", [branches[g] EXCEPT !.pc = "fe.gui"])
FrontendAfterProduct(g) ==
    IF branches[g].err # ""
    THEN Say(g, "fe.hpd.after", <<>>, "ERROR", "Failed to fetch product info", << ErrAttr >>,
             [branches[g] EXCEPT !.pc = "fe.hpd.ret", !.status = 500])
    ELSE Step(g, "fe.hpd.after", [branches[g] EXCEPT !.pc = "fe.gui"])

\* client.Do(req) of callUserService and what follows it.
UserCall(g) ==
    \E e \in {"", "user service returned status"} :
        Step(g, "fe.cus.do", [branches[g] EXCEPT !.pc = "fe.cus.ret", !.userErr = e,
                                                 !.userInfo = IF e = "" THEN "User XYZ" ELSE ""])

\* handleProductDetail, after GetUserInfo returned.
FrontendAfterUser(g) ==
    IF branches[g].userErr # ""
    THEN Say(g, "fe.hpd.user", <<>>, "ERROR", "Failed to fetch user info", << ErrAttr >>,
             [branches[g] EXCEPT !.pc = "fe.hpd.ok", !.userInfo = "User info not available"])
    ELSE Step(g, "fe.hpd.user", [branches[g] EXCEPT !.pc = "fe.hpd.ok"])

FrontendNext(g, d) ==
    \/ Enter(g, "fe.handler", "/product-detail", "fe.call")
    \/ Enter(g, "fe.call", "handleProductDetail", "fe.hpd")
    \/ FrontendCheck(g)
    \/ Enter(g, "fe.gpi", "ProductService.GetProductInfo", "fe.cps")
    \/ Enter(g, "fe.cps", "callProductService", "fe.cps.inject")
    \/ InjectHeaders(g, "fe.cps.inject", "fe.cps.do")
    \/ ClientDo(g, d)
    \/ Response(g, d)
    \/ Return(g, "fe.cps.ret", "fe.gpi.ret")
    \/ Return(g, "fe.gpi.ret", "fe.hpd.after")
    \/ FrontendAfterProduct(g)
    \/ Enter(g, "fe.gui", "UserService.GetUserInfo", "fe.cus")
    \/ Enter(g, "fe.cus", "callUserService", "fe.cus.inject")
    \/ InjectHeaders(g, "fe.cus.inject", "fe.cus.do")
    \/ UserCall(g)
    \/ Return(g, "fe.cus.ret", "fe.gui.ret")
    \/ Return(g, "fe.gui.ret", "fe.hpd.user")
    \/ FrontendAfterUser(g)
    \/ Say(g, "fe.hpd.ok", <<>>, "INFO", "Product and user info fetched successfully",
           << [key |-> "productInfo", kind |-> "str", text |-> branches[g].info] >>,
           [branches[g] EXCEPT !.pc = "fe.hpd.ret", !.status = 200])
    \/ Return(g, "fe.hpd.ret", "fe.handler.ret")
    \/ Return(g, "fe.handler.ret", "fe.done")

\* A client calls the frontend; the product service is idle until called.
ChainInit ==
    /\ ProcessInit
    /\ proc = NoProc
    /\ \E c \in Extracted, id \in Ids :
          /\ hctx = << c, Background >>
          /\ branches = << [Goroutine(1, "fe.handler", id) EXCEPT !.reqCtx = c],
                           Goroutine(2, "pr.idle", id) >>

ChainNext ==
    \/ FrontendNext(1, 2)
    \/ ProductNext(2)

ChainSpec == ChainInit /\ [][ChainNext]_vars

\* ---- handlers derived from one another through WithAttrs and WithGroup
\* NewAPMHandler(h): a handler with no accumulated fields. given is the
\* history of the value: the arguments of the WithAttrs calls that led to it.
NewAPMHandler(given) == [attrs |-> <<>>, born |-> Background, given |-> given]

GroupNames == {"request"}
AttrArgs == {<< PidAttr >>, << ErrAttr >>}

\* APMHandler.WithAttrs(attrs): the receiver's fields, then the new ones.
HandlerWithAttrs(h, attrs) ==
    [attrs |-> h.attrs \o attrs, born |-> h.born, given |-> h.given \o attrs]

\* APMHandler.WithGroup(name): NewAPMHandler over the wrapped handler's group.
HandlerWithGroup(h, name) == NewAPMHandler(h.given)

\* logger.With(attrs...) on handler l.
WithAttrsCall(l, attrs) ==
    /\ Len(loggers) < WithLoggers
    /\ loggers' = Append(loggers, HandlerWithAttrs(loggers[l], attrs))
    /\ call' = [NoCall EXCEPT !.op = "WithAttrs", !.logger = l, !.args = attrs, !.ctx = obsCtx]
    /\ out' = <<>>
    /\ UNCHANGED <<otherVars, impl, initCtx, sinkBroken, obsCtx, spans, ctxBefore, stack, written>>

\* logger.WithGroup(name) on handler l.
WithGroupCall(l, name) ==
    /\ Len(loggers) < WithLoggers
    /\ loggers' = Append(loggers, HandlerWithGroup(loggers[l], name))
    /\ call' = [NoCall EXCEPT !.op = "WithGroup", !.logger = l, !.msg = name, !.ctx = obsCtx]
    /\ out' = <<>>
    /\ UNCHANGED <<otherVars, impl, initCtx, sinkBroken, obsCtx, spans, ctxBefore, stack, written>>

HandlerInit ==
    /\ impl \in Impls
    /\ sinkBroken = FALSE
    /\ initCtx = Background
    /\ obsCtx = Background
    /\ spans = <<>>
    /\ ctxBefore = <<>>
    /\ stack = <<>>
    /\ loggers = << NewAPMHandler(<<>>) >>
    /\ written = 0
    /\ out = <<>>
    /\ call = NoCall
    /\ OthersIdle

HandlerNext ==
    \/ spans = <<>> /\ Start(Context)
    \/ \E l \in 1..Len(loggers), a \in AttrArgs : WithAttrsCall(l, a)
    \/ \E l \in 1..Len(loggers), n \in GroupNames : WithGroupCall(l, n)
    \/ \E l \in 1..Len(loggers) : LogCall(l, "ERROR", "Error fetching product", <<>>)

HandlerSpec == HandlerInit /\ [][HandlerNext]_vars

\* ---- concurrent NewObservability calls, each of which calls InitLogger
\* The package variables baseLogger and initOnce (a sync.Once: the done flag
\* and the mutex, 0 when free, else the goroutine that holds it); inits
\* counts the runs of the function given to initOnce.Do.
PackageVars == [baseLogger |-> "nil", initOnce |-> [done |-> 0, m |-> 0], inits |-> 0]

\* A goroutine about to call NewObservability; logger is the local variable
\* of the initialisation function, got what InitLogger returned to it.
Caller == [pc |-> "Do", logger |-> "nil", got |-> "none"]

\* Whether initOnce.Do runs the function, decided under the mutex.
RunsInit_always(done) == TRUE
RunsInit(done) == done = 0

OnceStep(c, at, next, nextProc) ==
    /\ branches[c].pc = at
    /\ branches' = [branches EXCEPT ![c] = next]
    /\ proc' = nextProc
    /\ call' = [NoCall EXCEPT !.op = at, !.branch = c]
    /\ out' = <<>>
    /\ UNCHANGED <<hctx, impl, initCtx, sinkBroken, obsCtx, spans, ctxBefore, stack, loggers,
                   written>>

\* initOnce.Do, fast path: done is read atomically.
OnceDo(c) ==
    OnceStep(c, "Do", [branches[c] EXCEPT !.pc = IF proc.initOnce.done = 0 THEN "Lock" ELSE "return"],
             proc)

\* initOnce.Do, slow path: o.m.Lock()
OnceLock(c) ==
    /\ proc.initOnce.m = 0
    /\ OnceStep(c, "Lock", [branches[c] EXCEPT !.pc = "check"], [proc EXCEPT !.initOnce.m = c])

\* if o.done == 0 { defer o.done.Store(1); f() }
OnceCheck(c) ==
    OnceStep(c, "check",
             [branches[c] EXCEPT !.pc = IF RunsInit(proc.initOnce.done) THEN "new" ELSE "Unlock"],
             proc)

\* logger := slog.New(NewAPMHandler(jsonHandler)); slog.SetDefault(logger)
InitNew(c) ==
    OnceStep(c, "new", [branches[c] EXCEPT !.pc = "assign", !.logger = "logger"],
             [proc EXCEPT !.inits = @ + 1])

\* baseLogger = logger
InitAssign(c) ==
    OnceStep(c, "assign", [branches[c] EXCEPT !.pc = "Store"],
             [proc EXCEPT !.baseLogger = branches[c].logger])

\* the deferred o.done.Store(1)
OnceStore(c) ==
    OnceStep(c, "Store", [branches[c] EXCEPT !.pc = "Unlock"], [proc EXCEPT !.initOnce.done = 1])

\* the deferred o.m.Unlock()
OnceUnlock(c) ==
    OnceStep(c, "Unlock", [branches[c] EXCEPT !.pc = "return"], [proc EXCEPT !.initOnce.m = 0])

\* return baseLogger, which NewObservability hands to NewLog
InitLoggerReturn(c) ==
    OnceStep(c, "return", [branches[c] EXCEPT !.pc = "done", !.got = proc.baseLogger], proc)

OnceInit ==
    /\ ProcessInit
    /\ hctx = <<>>
    /\ proc = PackageVars
    /\ branches = [c \in 1..(NumRequests + 1) |-> Caller]

OnceNext ==
    \E c \in DOMAIN branches :
        \/ OnceDo(c)
        \/ OnceLock(c)
        \/ OnceCheck(c)
        \/ InitNew(c)
        \/ InitAssign(c)
        \/ OnceStore(c)
        \/ OnceUnlock(c)
        \/ InitLoggerReturn(c)

OnceSpec == OnceInit /\ [][OnceNext]_vars

\* ---- the slog-only product service: no handle, one ctx variable in main
\* A goroutine of the http server about to run the "/product" handler for a
\* request whose headers carry the context hdr.
SlogRequest(hdr) == [pc |-> "extract", hdr |-> hdr, span |-> 0]

\* ctx = otel.GetTextMapPropagator().Extract(r.Context(), headers): an
\* assignment to the variable ctx of main, which the handler closure captured
\* and every goroutine shares (hctx[1] here).
SlogExtract(q) ==
    /\ branches[q].pc = "extract"
    /\ hctx' = << branches[q].hdr >>
    /\ branches' = [branches EXCEPT ![q].pc = "start"]
    /\ call' = [NoCall EXCEPT !.op = "Extract", !.branch = q, !.ctx = branches[q].hdr]
    /\ out' = <<>>
    /\ UNCHANGED <<proc, impl, initCtx, sinkBroken, obsCtx, spans, ctxBefore, stack, loggers,
                   written>>

\* ctx, span := tracer.Start(ctx, "/product", ...): the argument is read from
\* the shared variable; := declares a new ctx local to this call.
SlogStart(q) ==
    /\ branches[q].pc = "start"
    /\ LET n == Len(spans) + 1 IN
        /\ spans' = Append(spans, NewSpan(n, hctx[1], hctx[1]))
        /\ ctxBefore' = Append(ctxBefore, hctx[1])
        /\ branches' = [branches EXCEPT ![q].pc = "handle", ![q].span = n]
        /\ call' = [NoCall EXCEPT !.op = "Start", !.branch = q, !.span = n, !.ctx = hctx[1]]
    /\ out' = <<>>
    /\ UNCHANGED <<proc, hctx, impl, initCtx, sinkBroken, obsCtx, stack, loggers, written>>

\* handleProduct(ctx, logger, w, r, service) with the local ctx: what it logs
\* goes through the APMHandler with the context of the root span.
SlogHandleProduct(q, level) ==
    /\ branches[q].pc = "handle"
    /\ LET ctx == SpanCtx(branches[q].span)
           r == [level |-> level, msg |-> "Processing request", attrs |-> <<>>]
           res == Handle_product_service(<<>>, ctx, r)
       IN  /\ spans' = res.spans
           /\ out' = res.out
           /\ written' = written + Len(res.out)
           /\ call' = [NoCall EXCEPT !.op = "log", !.branch = q, !.logger = 1, !.level = level,
                                     !.msg = r.msg, !.ctx = ctx, !.recording = IsRecording(ctx)]
    /\ branches' = [branches EXCEPT ![q].pc = "end"]
    /\ UNCHANGED <<proc, hctx, impl, initCtx, sinkBroken, obsCtx, ctxBefore, stack, loggers>>

\* defer span.End() of the root span.
SlogEnd(q) ==
    /\ branches[q].pc = "end"
    /\ spans' = [spans EXCEPT ![branches[q].span].ended = TRUE]
    /\ branches' = [branches EXCEPT ![q].pc = "done"]
    /\ call' = [NoCall EXCEPT !.op = "End", !.branch = q, !.span = branches[q].span]
    /\ out' = <<>>
    /\ UNCHANGED <<proc, hctx, impl, initCtx, sinkBroken, obsCtx, ctxBefore, stack, loggers,
                   written>>

\* ctx := context.Background() in main, then the requests arrive.
SlogInit ==
    /\ ProcessInit
    /\ impl = "product-service"
    /\ proc = NoProc
    /\ hctx = << Background >>
    /\ \E hdrs \in [1..NumRequests -> Extracted] :
          branches = [q \in 1..NumRequests |-> SlogRequest(hdrs[q])]

SlogNext ==
    \E q \in DOMAIN branches :
        \/ SlogExtract(q)
        \/ SlogStart(q)
        \/ \E lv \in {"INFO", "ERROR"} : SlogHandleProduct(q, lv)
        \/ SlogEnd(q)

SlogSpec == SlogInit /\ [][SlogNext]_vars

\* ---- Log values branching from one another through With
WithArgs == {<< PidAttr >>, << ErrAttr >>}

WithNext ==
    \E l \in 1..Len(loggers), a \in WithArgs : Len(loggers) < WithLoggers /\ With(l, a)

WithSpec == Init /\ [][WithNext]_vars

\* ------------------------------------------------------------------ properties
Range(f) == {f[i] : i \in DOMAIN f}
IsPrefix(a, b) == Len(a) <= Len(b) /\ SubSeq(b, 1, Len(a)) = a

\* The span a log call was made under, as it is after the call.
Target == spans[call.ctx.span]
LoggedOnSpan == call.op = "log" /\ call.recording
ErrorLogged == LoggedOnSpan /\ call.level = "ERROR"

\* C1: right after the End of a span (spans ended innermost first), the
\* handle's Context() is what it was just before the Start of that span.
C1_Restoration == call.op = "End" => obsCtx = ctxBefore[call.span]

\* C1 witness: a nested span whose Start was given a context other than the
\* ambient one has ended, the enclosing span still open.
C1_Witness ==
    /\ call.op = "End"
    /\ stack # <<>>
    /\ spans[call.span].parent # ctxBefore[call.span]
    /\ obsCtx = SpanCtx(stack[Len(stack)])

\* C2: a log call touches no span but the one ambient in the handle at the
\* time of the call, whichever Log value it is made on, and at info, warn and
\* error level it does add to that span when it is recording.
C2_MirrorsOnAmbient ==
    [][ call'.op = "log" =>
          /\ \A n \in 1..Len(spans) : SpanCtx(n) # obsCtx => spans'[n] = spans[n]
          /\ (IsRecording(obsCtx) /\ call'.level # "DEBUG") =>
                spans'[obsCtx.span].nEvents = spans[obsCtx.span].nEvents + 1 ]_vars

\* C2 witness: a Log value derived under a span that is still recording is
\* used under another span, and the call is mirrored there.
C2_Witness ==
    /\ LoggedOnSpan
    /\ call.logger > 1
    /\ call.level = "INFO"
    /\ loggers[call.logger].born # call.ctx
    /\ IsRecording(loggers[call.logger].born)
    /\ Target.nEvents = 1

\* C3 as stated: after an error-level log under a recording span the span's
\* status is error with a non-empty description, whatever the message, and a
\* later log under that span leaves the status error.
C3_Original ==
    /\ ErrorLogged => Target.status.code = "Error" /\ Target.status.desc # ""
    /\ (LoggedOnSpan /\ call.wasError) => Target.status.code = "Error"

\* C4: an error-level log whose own fields hold no error value under "error"
\* records an error that reads as the log message and sets the status to
\* error with the message as description.
C4_SynthesizedError ==
    (ErrorLogged /\ FindLoggedErr(call.args) = 0) =>
        /\ Target.lastEvent.name = "exception"
        /\ Target.lastEvent.err = call.msg
        /\ Target.status = [code |-> "Error", desc |-> call.msg]

\* C4 witness: the "error" field of the call held a plain string.
C4_Witness ==
    /\ ErrorLogged
    /\ call.args = << StrErrAttr >>
    /\ call.msg # ""
    /\ Target.lastEvent.err = call.msg

\* C5 as stated: an error-level log whose own fields hold an error value e
\* under "error" records e and sets the status to error with e's description.
C5_Original ==
    (ErrorLogged /\ FindLoggedErr(call.args) # 0) =>
        LET e == call.args[FindLoggedErr(call.args)].text IN
        /\ Target.lastEvent.name = "exception"
        /\ Target.lastEvent.err = e
        /\ Target.status = [code |-> "Error", desc |-> e]

\* C6 as stated: the error record of an error-level log carries the fields
\* accumulated through With, in order, followed by the fields of the call.
C6_Original ==
    ErrorLogged =>
        /\ Target.lastEvent.name = "exception"
        /\ IsPrefix(convertSlogAttrsToAPMAttrsFromSlice(loggers[call.logger].attrs \o call.args),
                    Target.lastEvent.attrs)

\* C7: a warn or info log under a recording span adds exactly one event,
\* named after the message, whose attributes include every field of the
\* record, and leaves the status as it was.
C7_EventAdded ==
    [][ (call'.op = "log" /\ call'.recording /\ call'.level \in {"INFO", "WARN"}) =>
          LET n == obsCtx.span IN
          /\ spans'[n].nEvents = spans[n].nEvents + 1
          /\ spans'[n].lastEvent.name = call'.msg
          /\ spans'[n].lastEvent.err = ""
          /\ \A i \in 1..Len(call'.args) :
                KeyValue(call'.args[i].key, call'.args[i].text) \in Range(spans'[n].lastEvent.attrs)
          /\ spans'[n].status = spans[n].status ]_vars

\* C7 witness: a warn log with fields, under a span an error log had marked.
C7_Witness ==
    /\ LoggedOnSpan
    /\ call.level = "WARN"
    /\ call.args # <<>>
    /\ call.wasError
    /\ Target.lastEvent.name = call.msg

\* C8 as stated: a debug log leaves every span as it was.
C8_Original == [][ (call'.op = "log" /\ call'.level = "DEBUG") => spans' = spans ]_vars

\* C8 amended: a debug log records no error and leaves the status as it was;
\* the handlers of frontend-service and product-service leave the span as it
\* was, the handler of product adds one event named after the message.
C8_DebugEffect ==
    [][ (call'.op = "log" /\ call'.level = "DEBUG") =>
          IF call'.recording /\ impl = "product"
          THEN LET n == obsCtx.span IN
               /\ spans'[n] = [spans[n] EXCEPT !.nEvents = @ + 1, !.lastEvent = spans'[n].lastEvent]
               /\ spans'[n].lastEvent.name = call'.msg
               /\ spans'[n].lastEvent.err = ""
               /\ \A m \in 1..Len(spans) : m # n => spans'[m] = spans[m]
          ELSE spans' = spans ]_vars

\* C8 witness: a debug log with fields under a recording span, handled by
\* the handler of product.
C8_Witness ==
    /\ LoggedOnSpan
    /\ call.level = "DEBUG"
    /\ call.args # <<>>
    /\ impl = "product"
    /\ Target.nEvents = 1
    /\ Target.status = NoStatus

\* C9: a log call hands exactly one record to the wrapped sink handler, span
\* or no span; with no recording span it touches no span; and it never
\* raises, even when the sink write fails.
C9_SinkWrite ==
    [][ (call'.op = "log" /\ Enabled(call'.level)) =>
          /\ written' = written + 1
          /\ Len(out') = 1
          /\ out'[1].level = call'.level /\ out'[1].msg = call'.msg
          /\ ~call'.recording => spans' = spans
          /\ ~call'.raised ]_vars

\* C9 witness: a log call after the root span ended, the sink failing.
C9_Witness ==
    /\ call.op = "log"
    /\ ~call.recording
    /\ sinkBroken
    /\ spans # <<>>
    /\ spans[1].ended
    /\ Len(out) = 1

\* C10 as stated: every record written to the sink carries the trace id and
\* the span id of the ambient context, or the sentinels when it has none.
C10_Original ==
    call.op = "log" =>
        \A i \in 1..Len(out) :
            /\ [key |-> "trace.id", kind |-> "str", text |-> getTraceID(call.ctx)] \in Range(out[i].attrs)
            /\ [key |-> "span.id", kind |-> "str", text |-> getSpanID(call.ctx)] \in Range(out[i].attrs)

\* C11: a With call leaves every Log value that exists, the receiver and its
\* siblings among them, with the fields it had, and the new Log value holds
\* the receiver's fields followed by the fields given.
C11_WithFrame ==
    [][ call'.op = "With" =>
          /\ Len(loggers') = Len(loggers) + 1
          /\ \A i \in 1..Len(loggers) : loggers'[i].attrs = loggers[i].attrs
          /\ loggers'[Len(loggers')].attrs = loggers[call'.logger].attrs \o call'.args ]_vars

\* C11 witness: two Log values derived from obs.Log with different fields,
\* and a third derived from the first of them.
C11_Witness ==
    /\ call.op = "With"
    /\ Len(loggers) = 4
    /\ loggers[1].attrs = <<>>
    /\ loggers[2].attrs = << PidAttr >>
    /\ loggers[3].attrs = << ErrAttr >>
    /\ loggers[4].attrs = << PidAttr, ErrAttr >>

\* C12 as stated: a second End on a span leaves the handle's context as it
\* was before that call and writes a warning.
C12_Original ==
    call.op = "EndAgain" =>
        /\ obsCtx = call.ctx
        /\ out # <<>>

\* C13: a span starts with no status, and the status of a span changes only
\* in an error-level log call made while that span is the ambient one; the
\* statuses of its parent, of the root and of ended siblings stay as they are.
C13_StatusOnlyAmbient ==
    [][ /\ \A n \in 1..Len(spans) :
              spans'[n].status # spans[n].status =>
                  /\ call'.op = "log"
                  /\ call'.level = "ERROR"
                  /\ obsCtx = SpanCtx(n)
        /\ Len(spans') > Len(spans) => spans'[Len(spans')].status = NoStatus ]_vars

\* C13 witness: root start, child A start, info log, child A end, child B
\* start, error log, child B end, root end; B is in error, root and A are not.
C13_Witness ==
    /\ Len(spans) = 3
    /\ \A n \in 1..3 : spans[n].ended
    /\ spans[2].parent = SpanCtx(1) /\ spans[3].parent = SpanCtx(1)
    /\ spans[1].nEvents = 0 /\ spans[1].status = NoStatus
    /\ spans[2].nEvents = 1 /\ spans[2].status = NoStatus
    /\ spans[3].nEvents = 1 /\ spans[3].status.code = "Error"

\* C14: with one handle per request, under every interleaving the context of
\* a handle is the one extracted from its request or that of the span its
\* request started, every span is a child of its own request's context and
\* in its trace, and a log call is mirrored onto the caller's own span.
C14_Isolation ==
    /\ \A q \in DOMAIN hctx :
          \/ hctx[q] = branches[q].held
          \/ branches[q].span # 0 /\ hctx[q] = SpanCtx(branches[q].span)
    /\ \A q \in DOMAIN branches :
          branches[q].span # 0 =>
              LET s == spans[branches[q].span] IN
              /\ s.parent = branches[q].held
              /\ s.traceId = IF HasSpanContext(branches[q].held)
                             THEN CtxTraceId(branches[q].held)
                             ELSE TraceIdText[branches[q].span]
              /\ \A p \in DOMAIN branches :
                    (p # q /\ branches[p].span # 0 /\ ~HasSpanContext(branches[q].held))
                        => spans[branches[p].span].traceId # s.traceId
    /\ (call.op = "log" /\ call.branch # 0) =>
          /\ call.ctx \in {branches[call.branch].held, SpanCtx(branches[call.branch].span)}
          /\ call.recording => call.ctx = SpanCtx(branches[call.branch].span)

\* C14 witness: the second request logs an error under its span while the
\* span of the first request, started later, is still open.
C14_Witness ==
    /\ call.op = "log"
    /\ call.branch = 2
    /\ call.recording
    /\ branches[2].span = 1
    /\ branches[1].span = 2
    /\ IsRecording(SpanCtx(2))
    /\ spans[1].status.code = "Error"
    /\ spans[2].nEvents = 0

\* C15: with one handle shared by concurrent branches, End puts back the
\* context its own Start read and a log call is mirrored onto the span held
\* in the handle's single field at the time of the call, whichever branch
\* put it there; so a log can land on the other branch's span and the
\* context after both Ends can differ from the one before both Starts.
C15_SharedField ==
    /\ call.op = "End" => hctx[1] = ctxBefore[call.span]
    /\ (call.op = "log" /\ call.recording) =>
          /\ spans[call.ctx.span].nEvents > 0
          /\ call.ctx.span \in {branches[b].span : b \in DOMAIN branches}

\* C15 witness: both branches are done, one span took the logs of two
\* branches, and the handle's context is not what it was before the Starts.
C15_Witness ==
    /\ \A b \in DOMAIN branches : branches[b].pc = "done"
    /\ hctx[1] # branches[1].held
    /\ \E b \in DOMAIN branches : spans[branches[b].span].nEvents = 2
    /\ \E b \in DOMAIN branches : spans[branches[b].span].nEvents = 0

\* C16 as stated: on the handle ObsFromCtx returns when none is stored, a
\* call of Log.Debug / Info / Warn / Error / With or Trace.Start does not
\* fault and what follows it runs.
C16_Original == call.op = "nohandle" => ~call.raised

\* C17 as stated: once tracing was set up, a process that has stopped has run
\* the TracerProvider's Shutdown exactly once.
C17_Original == (proc.pc = "exited" /\ proc.tracing) => proc.shutdowns = 1

\* C18: once GetProductInfo has returned, the error the handler holds is the
\* very error the repository returned (none when it returned none), logged
\* or not; and the request is answered 400 for an empty id, 404 for an id
\* that starts with "missing-", and 200 otherwise.
C18_ErrorPropagation ==
    LET G == branches[2] IN
    /\ G.pc \in {"pr.svc.ret", "pr.hp.after", "pr.hp.ret", "pr.handler.ret", "pr.done"} =>
          /\ G.err = G.repoErr
          /\ G.id # <<>> => G.repoErr = RepoLookup(G.id)
    /\ G.pc = "pr.done" =>
          G.status = IF G.id = <<>> THEN 400
                     ELSE IF HasPrefix(G.id, << "missing-" >>) THEN 404 ELSE 200

\* C18 witness: a request for a missing product was answered 404 after the
\* service logged the repository's error on its span.
C18_Witness ==
    /\ branches[2].pc = "pr.done"
    /\ branches[2].id = << "missing-", "1" >>
    /\ branches[2].err = ErrProductNotFound
    /\ branches[2].status = 404
    /\ \E n \in 1..Len(spans) : spans[n].status.code = "Error"

\* C19: on every exit path of the handler, service and repository functions
\* (missing id, not found, downstream failure, success) each span a request
\* started is ended exactly once, an End never leaves a span open that the
\* request started later (reverse order of start), and when the handler has
\* returned no span is open and the handle's context is the one extracted
\* from the request.
C19_EveryExitPath ==
    \A g \in DOMAIN branches :
        LET G == branches[g] IN
        /\ \A i, j \in DOMAIN G.ends : i # j => G.ends[i] # G.ends[j]
        /\ \A n \in Range(G.ends) : spans[n].ended
        /\ (call.op = "End" /\ call.branch = g) =>
              \A n \in Range(G.starts) : n > call.span => spans[n].ended
        /\ G.pc \in {"fe.done", "pr.done"} =>
              /\ G.frames = <<>>
              /\ Range(G.ends) = Range(G.starts)
              /\ \A n \in Range(G.starts) : spans[n].ended
              /\ hctx[G.handle] = G.reqCtx

\* C19 witness: the frontend answered 200 after the product service answered
\* 200, and the ten spans of the two requests are all ended.
C19_Witness ==
    /\ branches[1].pc = "fe.done" /\ branches[1].status = 200
    /\ branches[2].pc = "pr.done" /\ branches[2].status = 200
    /\ Len(branches[1].ends) = 6 /\ Len(branches[2].ends) = 4
    /\ \A n \in 1..Len(spans) : spans[n].ended
    /\ hctx[1] = branches[1].reqCtx

\* C20: for each outbound call of the frontend, when the request is sent the
\* span of callProductService / callUserService is started and not yet
\* ended, it is the innermost span, and the headers carry the trace id and
\* span id of that very span; the root span the product service starts for
\* the request has the same trace id and that span as its remote parent.
C20_Propagation ==
    LET F == branches[1]
        P == branches[2]
    IN  F.pc \in {"fe.cps.do", "fe.cps.wait", "fe.cus.do"} =>
          LET top == F.frames[Len(F.frames)] IN
          /\ top.fn \in {"callProductService", "callUserService"}
          /\ top.span = F.starts[Len(F.starts)]
          /\ ~spans[top.span].ended
          /\ F.outbound = top.span
          /\ F.carrier = << spans[top.span].traceId, spans[top.span].spanId >>
          /\ (F.pc = "fe.cps.wait" /\ P.starts # <<>>) =>
                LET root == spans[P.starts[1]] IN
                /\ root.traceId = spans[top.span].traceId
                /\ root.traceId = spans[F.starts[1]].traceId
                /\ root.parent.kind = "remote"
                /\ CtxSpanId(root.parent) = spans[top.span].spanId

\* C20 witness: the product service has served the request the frontend is
\* waiting for, and its root span is a child of the callProductService span.
C20_Witness ==
    /\ branches[1].pc = "fe.cps.wait"
    /\ branches[2].pc = "pr.done"
    /\ Len(branches[2].starts) = 4
    /\ spans[branches[2].starts[1]].parent = [kind |-> "remote", span |-> branches[1].outbound]
    /\ branches[1].frames[Len(branches[1].frames)].fn = "callProductService"
    /\ spans[branches[2].starts[1]].traceId = spans[branches[1].outbound].traceId

\* C21: with Start, End and log calls properly nested on one handle, the
\* handle's context never designates a span that has ended, and no step
\* changes the events, the recorded error or the status of an ended span.
C21_NoWriteAfterEnd ==
    /\ [](obsCtx.kind = "span" => ~spans[obsCtx.span].ended)
    /\ [][\A s \in 1..Len(spans) : spans[s].ended => spans'[s] = spans[s]]_vars

\* C21 witness: a child span has ended without events, and an error log made
\* after its End was recorded on its parent, which is still open.
C21_Witness ==
    /\ call.op = "log" /\ call.level = "ERROR" /\ call.recording
    /\ ~spans[call.ctx.span].ended
    /\ spans[call.ctx.span].status.code = "Error"
    /\ \E s \in 1..Len(spans) :
          /\ spans[s].ended /\ spans[s].nEvents = 0
          /\ spans[s].parent = call.ctx

\* C22: at every Trace.Start of the handler, service and repository chain
\* the span in the ctx argument, which becomes the new span's parent, is the
\* span in the handle's Context(), which is saved as the restore point; and
\* what an End makes ambient again is the parent of the span it ended.
C22_ParentIsRestorePoint ==
    /\ \A n \in 1..Len(spans) :
          /\ spans[n].parent.kind = spans[n].parentCtx.kind
          /\ SpanFromContext(spans[n].parent) = SpanFromContext(spans[n].parentCtx)
    /\ call.op = "Start" =>
          /\ call.ctx = spans[call.span].parent
          /\ hctx[branches[call.branch].handle] = SpanCtx(call.span)
    /\ call.op = "End" =>
          hctx[branches[call.branch].handle] = spans[call.span].parent

\* C22 witness: the repository's span, the fourth of the product request,
\* was just started as a child of the service's span, which was ambient.
C22_Witness ==
    /\ call.op = "Start" /\ call.branch = 2
    /\ Len(branches[2].frames) = 4
    /\ branches[2].frames[4].fn = "ProductRepository.GetProductByID"
    /\ spans[call.span].parent = SpanCtx(branches[2].frames[3].span)
    /\ spans[call.span].parentCtx = SpanCtx(branches[2].frames[3].span)

\* C23 as stated: in the slog-only product service, under every interleaving
\* of the requests handled concurrently, the root span of a request is
\* started from the context extracted from that request's own headers.
C23_Original ==
    \A q \in DOMAIN branches :
        branches[q].span # 0 => spans[branches[q].span].parent = branches[q].hdr

\* C24 as stated: when GetProductInfo logs obs.Log.With("productID", id,
\* "error", err).Error("Error fetching product"), the error recorded on the
\* active span is err, the repository's error, and not one made from the
\* message of the log call.
C24_Original ==
    (/\ call.op = "log" /\ call.level = "ERROR" /\ call.recording
     /\ call.branch = 2 /\ branches[2].pc = "pr.svc.ret") =>
        /\ spans[call.ctx.span].lastEvent.name = "exception"
        /\ spans[call.ctx.span].lastEvent.err = branches[2].repoErr

\* C25: when a product request whose id starts with "missing-" completes,
\* the ProductRepository.GetProductByID span carries the event "Product not
\* found in repository" and is not marked error, the
\* ProductService.GetProductInfo span is marked error, and the handleProduct
\* span and the root "/product" span are not marked error.
C25_NotFoundMarks ==
    LET G == branches[2] IN
    (G.pc = "pr.done" /\ HasPrefix(G.id, << "missing-" >>)) =>
        /\ Len(G.starts) = 4
        /\ spans[G.starts[4]].lastEvent.name = "Product not found in repository"
        /\ spans[G.starts[4]].status.code # "Error"
        /\ spans[G.starts[3]].status.code = "Error"
        /\ spans[G.starts[2]].status.code # "Error"
        /\ spans[G.starts[1]].status.code # "Error"

\* C25 witness: the request for "missing-1" is complete under the handler of
\* product/observability/log.go, with the warning on the repository's span
\* and the error status on the service's span only.
C25_Witness ==
    /\ impl = "product"
    /\ branches[2].pc = "pr.done" /\ branches[2].id = << "missing-", "1" >>
    /\ branches[2].status = 404
    /\ spans[branches[2].starts[4]].lastEvent.name = "Product not found in repository"
    /\ spans[branches[2].starts[4]].ended
    /\ spans[branches[2].starts[3]].status = [code |-> "Error", desc |-> "Error fetching product"]
    /\ spans[branches[2].starts[2]].status = NoStatus

\* C26: handleProductDetail of the frontend answers 400 for an empty id and
\* calls neither service; answers 500 when the product call fails and never
\* calls the user service then; still answers 200, with "User info not
\* available", when only the user call fails; and calls the product service
\* before the user service.
C26_FrontendAnswers ==
    LET F == branches[1]
        Called(fn) == \E i \in DOMAIN F.fns : F.fns[i] = fn
    IN  /\ \A j \in DOMAIN F.fns :
              F.fns[j] = "UserService.GetUserInfo" =>
                  \E i \in 1..(j - 1) : F.fns[i] = "ProductService.GetProductInfo"
        /\ F.pc = "fe.done" =>
              /\ F.id = <<>> =>
                    /\ F.status = 400
                    /\ ~Called("ProductService.GetProductInfo")
                    /\ ~Called("UserService.GetUserInfo")
              /\ (F.id # <<>> /\ F.err # "") =>
                    /\ F.status = 500
                    /\ ~Called("UserService.GetUserInfo")
              /\ (F.id # <<>> /\ F.err = "") =>
                    /\ F.status = 200
                    /\ Called("UserService.GetUserInfo")
                    /\ F.userErr # "" => F.userInfo = "User info not available"

\* C26 witness: the product call succeeded, the user call failed, and the
\* frontend answered 200 with the fallback text.
C26_Witness ==
    /\ branches[1].pc = "fe.done" /\ branches[1].status = 200
    /\ branches[1].err = "" /\ branches[1].userErr # ""
    /\ branches[1].userInfo = "User info not available"
    /\ branches[2].pc = "pr.done" /\ branches[2].status = 200

\* C27: when APM_TYPE is neither OTLP nor DataDog, SetupTracing fails and
\* main exits with status 1 before a handler is registered or served, so
\* that no request ever calls Start on the nil Tracer NewTrace leaves.
C27_UnsupportedExits ==
    /\ ~SupportedAPM(proc.apm) =>
          /\ proc.pc \in {"setup", "exited"}
          /\ ~proc.registered /\ ~proc.tracing
          /\ proc.pc = "exited" => proc.exit = 1
          /\ spans = <<>>
    /\ call.op = "Start" => (NewTrace(proc.apm) # "nil" /\ ~call.raised)

\* C27 witness: started with APM_TYPE=none, the process has exited with
\* status 1 out of SetupTracing, no handler registered.
C27_Witness ==
    /\ proc.apm = "none" /\ NewTrace(proc.apm) = "nil"
    /\ proc.pc = "exited" /\ proc.exit = 1
    /\ call.op = "SetupTracing"
    /\ ~proc.registered

\* C28 as stated: for any sequence of WithAttrs and WithGroup calls the
\* handler's accumulated attribute list is the concatenation of the
\* arguments of all the WithAttrs calls, in call order, so that fields given
\* before a WithGroup still reach the span events.
C28_Original == \A l \in 1..Len(loggers) : loggers[l].attrs = loggers[l].given

\* C29: under concurrent NewObservability / InitLogger calls the body of the
\* logger initialisation runs at most once, every call that has returned
\* got the same base logger, which is not nil and was fully initialised
\* when it was returned.
C29_InitOnce ==
    /\ proc.inits <= 1
    /\ \A c \in DOMAIN branches :
          branches[c].pc = "done" =>
              /\ branches[c].got = "logger"
              /\ branches[c].got = proc.baseLogger
              /\ proc.initOnce.done = 1
    /\ \A c, d \in DOMAIN branches :
          (branches[c].pc = "done" /\ branches[d].pc = "done") => branches[c].got = branches[d].got

\* C29 witness: every caller has returned; one of them ran the
\* initialisation and another went through the slow path without running it.
C29_Witness ==
    /\ \A c \in DOMAIN branches : branches[c].pc = "done" /\ branches[c].got = "logger"
    /\ proc.inits = 1
    /\ \E c \in DOMAIN branches : branches[c].logger = "logger"
    /\ \E c \in DOMAIN branches : branches[c].logger = "nil" /\ call.op = "return" /\ call.branch = c
====
